---- MODULE Spec2Model ----
(***************************************************************************)
(* Personal Finance Tracker (src/main.py): the CSV record store, the menu  *)
(* loop of main() and the read-path reports, as a state machine.           *)
(*                                                                         *)
(* Text is modelled character by character: a Python str is a sequence of  *)
(* one-character strings, so that strip(), float(), repr(), the csv        *)
(* writer's quoting and the readers' parsing are computed, not assumed.    *)
(* A float is a decimal number m * 10^e (or nan / inf); binary rounding is *)
(* not modelled.                                                           *)
(***************************************************************************)
EXTENDS Integers, Sequences, FiniteSets, TLC

(***************************************************************************)
(* Bounds of the model.                                                    *)
(***************************************************************************)
\* Data rows add_transaction may append before the menu stops offering it.
MaxRows == 2

(***************************************************************************)
(* Characters and strings.                                                 *)
(***************************************************************************)
\* The characters used by the inputs, in code point order.
Ascii ==
  << "\t", " ", "\"", "+", ",", "-", ".", "/",
     "0", "1", "2", "3", "4", "5", "6", "7", "8", "9",
     "A", "B", "C", "D", "E", "F", "G", "H", "I", "J", "K", "L", "M",
     "N", "O", "P", "Q", "R", "S", "T", "U", "V", "W", "X", "Y", "Z",
     "a", "b", "c", "d", "e", "f", "g", "h", "i", "j", "k", "l", "m",
     "n", "o", "p", "q", "r", "s", "t", "u", "v", "w", "x", "y", "z" >>

\* ord(c)
OrdTable ==
  [c \in {Ascii[i] : i \in 1..Len(Ascii)} |-> CHOOSE i \in 1..Len(Ascii) : Ascii[i] = c]

Ord(c) == OrdTable[c]

DigitChars == <<"0", "1", "2", "3", "4", "5", "6", "7", "8", "9">>

IsDigit(c) == \E i \in 1..10 : DigitChars[i] = c

DigitVal(c) == (CHOOSE i \in 1..10 : DigitChars[i] = c) - 1

IsSpace(c) == c \in {" ", "\t"}

\* str.lower() on one character
LowerChar(c) ==
  IF Ord(c) >= Ord("A") /\ Ord(c) <= Ord("Z")
  THEN Ascii[Ord(c) - Ord("A") + Ord("a")]
  ELSE c

\* str.lower()
Lower(s) == [i \in 1..Len(s) |-> LowerChar(s[i])]

RECURSIVE LStrip(_)
LStrip(s) ==
  IF s # <<>> /\ IsSpace(Head(s)) THEN LStrip(Tail(s)) ELSE s

RECURSIVE RStrip(_)
RStrip(s) ==
  IF s # <<>> /\ IsSpace(s[Len(s)]) THEN RStrip(SubSeq(s, 1, Len(s) - 1)) ELSE s

\* str.strip()
Strip(s) == RStrip(LStrip(s))

\* s < t in Python's str ordering (code points, then length)
RECURSIVE StrLess(_, _)
StrLess(s, t) ==
  IF t = <<>> THEN FALSE
  ELSE IF s = <<>> THEN TRUE
  ELSE IF Head(s) = Head(t) THEN StrLess(Tail(s), Tail(t))
  ELSE Ord(Head(s)) < Ord(Head(t))

\* Index just past the run of digits of s that starts at i.
RECURSIVE SkipDigits(_, _)
SkipDigits(s, i) ==
  IF i <= Len(s) /\ IsDigit(s[i]) THEN SkipDigits(s, i + 1) ELSE i

\* The number written by the digits s[i..j-1] (0 for no digit).
RECURSIVE DigitsValue(_, _, _)
DigitsValue(s, i, j) ==
  IF i >= j THEN 0 ELSE DigitsValue(s, i, j - 1) * 10 + DigitVal(s[j - 1])

\* str(n) for a natural number n
RECURSIVE NatToStr(_)
NatToStr(n) ==
  IF n < 10 THEN <<DigitChars[n + 1]>>
  ELSE NatToStr(n \div 10) \o <<DigitChars[(n % 10) + 1]>>

RECURSIVE Zeros(_)
Zeros(n) == IF n <= 0 THEN <<>> ELSE <<"0">> \o Zeros(n - 1)

RECURSIVE Pow10(_)
Pow10(n) == IF n <= 0 THEN 1 ELSE 10 * Pow10(n - 1)

(***************************************************************************)
(* Floats: [k |-> "fin", m, e] is m * 10^e with m not divisible by 10      *)
(* (m = 0, e = 0 for zero); [k |-> "nan"]; [k |-> "inf"] with m = 1 or -1. *)
(***************************************************************************)
NaN == [k |-> "nan", m |-> 0, e |-> 0]

Inf == [k |-> "inf", m |-> 1, e |-> 0]

Zero == [k |-> "fin", m |-> 0, e |-> 0]

RECURSIVE Normalize(_, _)
Normalize(m, e) ==
  IF m = 0 THEN Zero
  ELSE IF m % 10 = 0 THEN Normalize(m \div 10, e + 1)
  ELSE [k |-> "fin", m |-> m, e |-> e]

\* The finite float a as an integer number of units 10^e, for e <= a.e.
Scaled(a, e) == a.m * Pow10(a.e - e)

MinExp(a, b) == IF a.e < b.e THEN a.e ELSE b.e

\* a < b as IEEE comparison: false whenever a nan is involved
FloatLess(a, b) ==
  IF a.k = "nan" \/ b.k = "nan" THEN FALSE
  ELSE IF a.k = "inf" THEN a.m < 0 /\ ~(b.k = "inf" /\ b.m < 0)
  ELSE IF b.k = "inf" THEN b.m > 0
  ELSE Scaled(a, MinExp(a, b)) < Scaled(b, MinExp(a, b))

\* a == b as IEEE comparison: nan equals nothing, itself included
FloatEq(a, b) ==
  IF a.k = "nan" \/ b.k = "nan" THEN FALSE
  ELSE a = b

\* a <= b as IEEE comparison
FloatLeq(a, b) == FloatLess(a, b) \/ FloatEq(a, b)

\* a + b
FloatAdd(a, b) ==
  IF a.k = "nan" \/ b.k = "nan" THEN NaN
  ELSE IF a.k = "inf" /\ b.k = "inf" THEN (IF a.m = b.m THEN a ELSE NaN)
  ELSE IF a.k = "inf" THEN a
  ELSE IF b.k = "inf" THEN b
  ELSE Normalize(Scaled(a, MinExp(a, b)) + Scaled(b, MinExp(a, b)), MinExp(a, b))

\* float(s) for the unsigned decimal forms: digits [. digits] [e [sign] digits]
ParseDecimal(s) ==
  LET i1 == SkipDigits(s, 1)
      hasPoint == i1 <= Len(s) /\ s[i1] = "."
      i2 == IF hasPoint THEN SkipDigits(s, i1 + 1) ELSE i1
      nFrac == IF hasPoint THEN i2 - (i1 + 1) ELSE 0
      nDigits == (i1 - 1) + nFrac
      mant == DigitsValue(s, 1, i1) * Pow10(nFrac)
              + (IF hasPoint THEN DigitsValue(s, i1 + 1, i2) ELSE 0)
      hasExp == i2 <= Len(s) /\ s[i2] \in {"e", "E"}
      hasSign == hasExp /\ i2 + 1 <= Len(s) /\ s[i2 + 1] \in {"+", "-"}
      i3 == IF hasSign THEN i2 + 2 ELSE i2 + 1
      i4 == IF hasExp THEN SkipDigits(s, i3) ELSE i2
      expNeg == hasSign /\ s[i2 + 1] = "-"
      expAbs == IF hasExp THEN DigitsValue(s, i3, i4) ELSE 0
      ex == IF expNeg THEN 0 - expAbs ELSE expAbs
      ok == /\ nDigits >= 1
            /\ (hasExp => i4 > i3)
            /\ i4 = Len(s) + 1
  IN  IF ok THEN [ok |-> TRUE, v |-> Normalize(mant, ex - nFrac)]
      ELSE [ok |-> FALSE, v |-> NaN]

Negate(a) == [a EXCEPT !.m = 0 - a.m]

\* float(s): ok is FALSE where Python raises ValueError
ParseFloat(str) ==
  LET s == Strip(str)
      signed == s # <<>> /\ Head(s) \in {"+", "-"}
      neg == signed /\ Head(s) = "-"
      body == IF signed THEN Tail(s) ELSE s
      low == Lower(body)
      r == IF low = <<"n", "a", "n">> THEN [ok |-> TRUE, v |-> NaN]
           ELSE IF low = <<"i", "n", "f">>
                   \/ low = <<"i", "n", "f", "i", "n", "i", "t", "y">>
                THEN [ok |-> TRUE, v |-> Inf]
           ELSE ParseDecimal(body)
  IN  IF r.ok /\ neg THEN [ok |-> TRUE, v |-> Negate(r.v)] ELSE r

\* repr(x) of a float, which is what csv.writer writes for it
Repr(x) ==
  IF x.k = "nan" THEN <<"n", "a", "n">>
  ELSE IF x.k = "inf"
       THEN (IF x.m < 0 THEN <<"-">> ELSE <<>>) \o <<"i", "n", "f">>
  ELSE
    LET sign == IF x.m < 0 THEN <<"-">> ELSE <<>>
        d == NatToStr(IF x.m < 0 THEN 0 - x.m ELSE x.m)
        n == Len(d)
        decpt == n + x.e   \* the value is 0.d * 10^decpt
    IN  IF x.m = 0 THEN <<"0", ".", "0">>
        ELSE IF decpt > 16 \/ decpt < -3
        THEN sign \o <<d[1]>>
             \o (IF n > 1 THEN <<".">> \o SubSeq(d, 2, n) ELSE <<>>)
             \o <<"e">> \o (IF decpt - 1 < 0 THEN <<"-">> ELSE <<"+">>)
             \o (LET a == IF decpt - 1 < 0 THEN 1 - decpt ELSE decpt - 1
                 IN  IF a < 10 THEN <<"0">> \o NatToStr(a) ELSE NatToStr(a))
        ELSE IF x.e >= 0 THEN sign \o d \o Zeros(x.e) \o <<".", "0">>
        ELSE IF decpt > 0
        THEN sign \o SubSeq(d, 1, decpt) \o <<".">> \o SubSeq(d, decpt + 1, n)
        ELSE sign \o <<"0", ".">> \o Zeros(0 - decpt) \o d

(***************************************************************************)
(* The csv module: writer.writerow and the reader's field splitting.       *)
(***************************************************************************)
\* QUOTE_MINIMAL: a field is quoted when it holds the delimiter, the quote
\* character or a line break.
NeedsQuote(f) == \E i \in 1..Len(f) : f[i] \in {",", "\"", "\r", "\n"}

RECURSIVE DoubleQuotes(_)
DoubleQuotes(f) ==
  IF f = <<>> THEN <<>>
  ELSE (IF Head(f) = "\"" THEN <<"\"", "\"">> ELSE <<Head(f)>>)
       \o DoubleQuotes(Tail(f))

CsvField(f) ==
  IF NeedsQuote(f) THEN <<"\"">> \o DoubleQuotes(f) \o <<"\"">> ELSE f

\* The text of one row as csv.writer writes it (the line terminator is the
\* boundary between two elements of csv_lines).
RECURSIVE CsvJoin(_)
CsvJoin(fields) ==
  IF fields = <<>> THEN <<>>
  ELSE IF Len(fields) = 1 THEN CsvField(fields[1])
  ELSE CsvField(Head(fields)) \o <<",">> \o CsvJoin(Tail(fields))

\* The reader's automaton over one line: st is "start" (at the start of a
\* field), "unq" (in an unquoted field), "q" (in a quoted field) or "qq" (just
\* after a quote met in a quoted field).
RECURSIVE CsvScan(_, _, _, _, _)
CsvScan(s, i, st, cur, acc) ==
  IF i > Len(s) THEN Append(acc, cur)
  ELSE
    LET c == s[i] IN
    CASE st = "start" ->
           IF c = "\"" THEN CsvScan(s, i + 1, "q", <<>>, acc)
           ELSE IF c = "," THEN CsvScan(s, i + 1, "start", <<>>, Append(acc, <<>>))
           ELSE CsvScan(s, i + 1, "unq", <<c>>, acc)
      [] st = "unq" ->
           IF c = "," THEN CsvScan(s, i + 1, "start", <<>>, Append(acc, cur))
           ELSE CsvScan(s, i + 1, "unq", Append(cur, c), acc)
      [] st = "q" ->
           IF c = "\"" THEN CsvScan(s, i + 1, "qq", cur, acc)
           ELSE CsvScan(s, i + 1, "q", Append(cur, c), acc)
      [] OTHER ->
           IF c = "\"" THEN CsvScan(s, i + 1, "q", Append(cur, c), acc)
           ELSE IF c = "," THEN CsvScan(s, i + 1, "start", <<>>, Append(acc, cur))
           ELSE CsvScan(s, i + 1, "unq", Append(cur, c), acc)

\* The fields of one line; an empty line is the empty row.
CsvSplit(line) == IF line = <<>> THEN <<>> ELSE CsvScan(line, 1, "start", <<>>, <<>>)

\* The rows of a file, empty rows skipped as DictReader and pandas skip them.
RECURSIVE CsvRows(_)
CsvRows(lines) ==
  IF lines = <<>> THEN <<>>
  ELSE LET row == CsvSplit(Head(lines)) IN
       (IF row = <<>> THEN <<>> ELSE <<row>>) \o CsvRows(Tail(lines))

(***************************************************************************)
(* Configuration (src/main.py, lines 29 and 32) and fixed texts.           *)
(***************************************************************************)
S_Date == <<"D", "a", "t", "e">>

S_Category == <<"C", "a", "t", "e", "g", "o", "r", "y">>

S_Amount == <<"A", "m", "o", "u", "n", "t">>

S_Description == <<"D", "e", "s", "c", "r", "i", "p", "t", "i", "o", "n">>

CSV_HEADERS == <<S_Date, S_Category, S_Amount, S_Description>>

S_Other == <<"O", "t", "h", "e", "r">>

S_NoDescription ==
  <<"N", "o", " ", "d", "e", "s", "c", "r", "i", "p", "t", "i", "o", "n">>

S_Food == <<"F", "o", "o", "d">>

S_Transport == <<"T", "r", "a", "n", "s", "p", "o", "r", "t">>

S_Shopping == <<"S", "h", "o", "p", "p", "i", "n", "g">>

S_Entertainment ==
  <<"E", "n", "t", "e", "r", "t", "a", "i", "n", "m", "e", "n", "t">>

S_Bills == <<"B", "i", "l", "l", "s">>

S_Healthcare == <<"H", "e", "a", "l", "t", "h", "c", "a", "r", "e">>

\* "N/A", shown as the top category when there is no category total
S_NA == <<"N", "/", "A">>

\* A value that is no str: Python's None (DictReader's restval).
NoneValue == <<"None">>

\* datetime.now().strftime("%Y-%m-%d"): the day of the session
Today == <<"2", "0", "2", "4", "-", "0", "3", "-", "0", "1">>

(***************************************************************************)
(* datetime.strptime(s, "%Y-%m-%d")                                        *)
(***************************************************************************)
\* The pieces of s between the occurrences of the character sep.
RECURSIVE SplitOn(_, _, _)
SplitOn(s, sep, cur) ==
  IF s = <<>> THEN <<cur>>
  ELSE IF Head(s) = sep THEN <<cur>> \o SplitOn(Tail(s), sep, <<>>)
  ELSE SplitOn(Tail(s), sep, Append(cur, Head(s)))

AllDigits(s) == \A i \in 1..Len(s) : IsDigit(s[i])

IsLeap(y) == (y % 4 = 0 /\ y % 100 # 0) \/ y % 400 = 0

DaysInMonth(y, m) ==
  IF m = 2 THEN (IF IsLeap(y) THEN 29 ELSE 28)
  ELSE IF m \in {4, 6, 9, 11} THEN 30
  ELSE 31

\* TRUE where strptime returns, FALSE where it raises ValueError
IsValidDate(s) ==
  LET p == SplitOn(s, "-", <<>>) IN
  /\ Len(p) = 3
  /\ Len(p[1]) = 4 /\ AllDigits(p[1])
  /\ Len(p[2]) \in {1, 2} /\ AllDigits(p[2])
  /\ Len(p[3]) \in {1, 2} /\ AllDigits(p[3])
  /\ LET y == DigitsValue(p[1], 1, 5)
         m == DigitsValue(p[2], 1, Len(p[2]) + 1)
         d == DigitsValue(p[3], 1, Len(p[3]) + 1)
     IN  /\ y >= 1
         /\ m >= 1 /\ m <= 12
         /\ d >= 1 /\ d <= DaysInMonth(y, m)

(***************************************************************************)
(* csv.DictReader, as view_transactions uses it.                           *)
(***************************************************************************)
\* The last position of name in the header row, 0 when it is absent
\* (dict(zip(fieldnames, row)) keeps the last of two equal names).
RECURSIVE LastIndex(_, _, _)
LastIndex(names, name, i) ==
  IF i = 0 THEN 0
  ELSE IF names[i] = name THEN i
  ELSE LastIndex(names, name, i - 1)

HasKey(names, name) == LastIndex(names, name, Len(names)) > 0

\* row[name] of the dict DictReader builds; a short row gives None
DictGet(names, row, name) ==
  LET i == LastIndex(names, name, Len(names)) IN
  IF i <= Len(row) THEN row[i] ELSE NoneValue

\* list(csv.DictReader(file)): the header row and the data rows
DictReaderRows(lines) ==
  LET rows == CsvRows(lines) IN
  IF rows = <<>> THEN [fieldnames |-> <<>>, rows |-> <<>>]
  ELSE [fieldnames |-> Head(rows), rows |-> Tail(rows)]

(***************************************************************************)
(* pandas: read_csv, Series.sum/mean, groupby(...).sum(), sort_values.     *)
(***************************************************************************)
\* The strings read_csv reads as a missing value (keep_default_na); the empty
\* field is one of them.
NaValues ==
  { <<>>,
    <<"N", "/", "A">>, <<"N", "A">>, <<"n", "/", "a">>,
    <<"N", "U", "L", "L">>, <<"n", "u", "l", "l">>,
    <<"N", "a", "N">>, <<"n", "a", "n">>, <<"-", "N", "a", "N">>,
    <<"-", "n", "a", "n">>, <<"N", "o", "n", "e">> }

IsNa(cell) == cell \in NaValues

\* pd.read_csv(CSV_FILE): err is "EmptyDataError" for a file with no row at
\* all, "ParserError" for a data row longer than the header.
ReadCsv(lines) ==
  LET rows == CsvRows(lines) IN
  IF rows = <<>>
  THEN [err |-> "EmptyDataError", columns |-> <<>>, data |-> <<>>]
  ELSE IF \E i \in 2..Len(rows) : Len(rows[i]) > Len(rows[1])
  THEN [err |-> "ParserError", columns |-> <<>>, data |-> <<>>]
  ELSE [err |-> "", columns |-> Head(rows), data |-> Tail(rows)]

\* df[name] as read: the text of each cell of the column; a row shorter than
\* the header is padded with missing values.
Column(df, name) ==
  LET i == LastIndex(df.columns, name, Len(df.columns)) IN
  [r \in 1..Len(df.data) |-> IF i <= Len(df.data[r]) THEN df.data[r][i] ELSE <<>>]

\* The column is numeric when every cell is a number or missing.
IsNumericColumn(col) ==
  \A r \in 1..Len(col) : IsNa(col[r]) \/ ParseFloat(col[r]).ok

\* The values of a numeric column: NaN for a missing cell
NumericColumn(col) ==
  [r \in 1..Len(col) |-> IF IsNa(col[r]) THEN NaN ELSE ParseFloat(col[r]).v]

\* Series.sum() over the rows in rs (a sequence of row numbers), missing
\* values skipped (skipna); 0.0 for none.
RECURSIVE SumRows(_, _)
SumRows(values, rs) ==
  IF rs = <<>> THEN Zero
  ELSE LET x == values[Head(rs)]
           rest == SumRows(values, Tail(rs))
       IN  IF x.k = "nan" THEN rest ELSE FloatAdd(x, rest)

AllRows(values) == [r \in 1..Len(values) |-> r]

\* Series.sum()
SeriesSum(values) == SumRows(values, AllRows(values))

\* The number of values that are not missing (the divisor of Series.mean).
CountValues(values) ==
  Cardinality({r \in 1..Len(values) : values[r].k # "nan"})

\* A set of strings as the ascending sequence groupby(sort=True) lists its
\* keys in.
RECURSIVE SortedKeys(_)
SortedKeys(S) ==
  IF S = {} THEN <<>>
  ELSE LET least == CHOOSE x \in S : \A y \in S \ {x} : StrLess(x, y)
       IN  <<least>> \o SortedKeys(S \ {least})

\* The group keys: the distinct labels; a row whose label is missing belongs
\* to no group (dropna).
GroupKeys(labels) ==
  SortedKeys({labels[r] : r \in {q \in 1..Len(labels) : ~IsNa(labels[q])}})

\* The rows of one group, in file order.
GroupRows(labels, key) ==
  SelectSeq(AllRows(labels), LAMBDA r : labels[r] = key)

\* df.groupby(by)[name].sum(), for labels = df[by] and values = df[name]: one
\* [cat, sum] entry per key, keys ascending
GroupBySumOf(labels, values, keys) ==
  [i \in 1..Len(keys) |->
     [cat |-> keys[i], sum |-> SumRows(values, GroupRows(labels, keys[i]))]]

GroupBySum(labels, values) == GroupBySumOf(labels, values, GroupKeys(labels))

Reverse(s) == [i \in 1..Len(s) |-> s[Len(s) + 1 - i]]

\* Insert x into the ascending sequence s after every entry not above it.
RECURSIVE InsertAscending(_, _)
InsertAscending(s, x) ==
  IF s = <<>> THEN <<x>>
  ELSE IF FloatLess(x.sum, Head(s).sum) THEN <<x>> \o s
  ELSE <<Head(s)>> \o InsertAscending(Tail(s), x)

\* argsort of a short array: insertion sort, ascending, equal values kept in
\* their order.
RECURSIVE SortAscending(_)
SortAscending(s) ==
  IF s = <<>> THEN <<>>
  ELSE InsertAscending(SortAscending(SubSeq(s, 1, Len(s) - 1)), s[Len(s)])

\* Series.sort_values(ascending=False): pandas reverses the values, sorts
\* them ascending and reverses the outcome, so equal sums stay in the order
\* groupby gave them.
SortValuesDescending(s) == Reverse(SortAscending(Reverse(s)))

(***************************************************************************)
(* What an action prints, as one record: kind names the report, the other  *)
(* fields hold the values it shows (unused ones keep their defaults).      *)
(***************************************************************************)
Blank ==
  [ kind |-> "", rows |-> <<>>, totals |-> <<>>, total |-> Zero, count |-> 0,
    values |-> 0, top |-> <<>>, tips |-> <<>>, general |-> <<>>,
    rejected |-> 0, error |-> "" ]

Report(kind) == [Blank EXCEPT !.kind = kind]

\* An uncaught exception: the traceback Python prints as the process ends.
Raised(exception) == [Blank EXCEPT !.kind = "traceback", !.error = exception]

(***************************************************************************)
(* The handlers of the menu, as functions of the store (exists: the file   *)
(* is there; lines: its lines).                                            *)
(***************************************************************************)
\* description[:27] + "..." for a description longer than 27 characters
Truncate(description) ==
  IF Len(description) > 27
  THEN SubSeq(description, 1, 27) \o <<".", ".", ".">>
  ELSE description

\* Lines 126-148 of view_transactions(), for d = list(reader)
ListingOf(d) ==
  LET get(r, name) == DictGet(d.fieldnames, d.rows[r], name) IN
  IF Len(d.rows) = 0 THEN Report("none_found")
  ELSE IF \E name \in {S_Date, S_Category, S_Amount, S_Description} :
             ~HasKey(d.fieldnames, name)
  THEN Raised("KeyError")
  ELSE IF \E r \in 1..Len(d.rows) : get(r, S_Amount) = NoneValue
  THEN Raised("TypeError")
  ELSE IF \E r \in 1..Len(d.rows) : ~ParseFloat(get(r, S_Amount)).ok
  THEN Raised("ValueError")
  ELSE IF \E r \in 1..Len(d.rows) :
             NoneValue \in {get(r, S_Date), get(r, S_Category), get(r, S_Description)}
  THEN Raised("TypeError")
  ELSE [ Report("listing") EXCEPT
           !.rows = [r \in 1..Len(d.rows) |->
                       [ date |-> get(r, S_Date),
                         category |-> get(r, S_Category),
                         amount |-> ParseFloat(get(r, S_Amount)).v,
                         description |-> Truncate(get(r, S_Description)) ]],
           !.count = Len(d.rows) ]

\* view_transactions(): the listing, the "no transactions" note, or the
\* exception that ends it
view_transactions(exists, lines) ==
  IF ~exists THEN Raised("FileNotFoundError")
  ELSE ListingOf(DictReaderRows(lines))

\* The checks without the df.empty test: an empty frame goes on to the
\* aggregation.
FrameProblem_without_empty(exists, df) ==
  IF ~exists THEN "FileNotFoundError"
  ELSE IF df.err = "EmptyDataError" THEN "none_found"
  ELSE IF df.err # "" THEN df.err
  ELSE IF ~HasKey(df.columns, S_Amount) \/ ~HasKey(df.columns, S_Category)
  THEN "KeyError"
  ELSE IF ~IsNumericColumn(Column(df, S_Amount)) THEN "TypeError"
  ELSE ""

\* The checks the three pandas handlers share before they compute: "" when
\* the frame can be aggregated, "none_found" for the informational return,
\* else the exception raised.
FrameProblem(exists, df) ==
  IF ~exists THEN "FileNotFoundError"
  ELSE IF df.err = "EmptyDataError" THEN "none_found"
  ELSE IF df.err # "" THEN df.err
  ELSE IF Len(df.data) = 0 THEN "none_found"
  ELSE IF ~HasKey(df.columns, S_Amount) \/ ~HasKey(df.columns, S_Category)
  THEN "KeyError"
  ELSE IF ~IsNumericColumn(Column(df, S_Amount)) THEN "TypeError"
  ELSE ""

\* df.groupby('Category')['Amount'].sum()
category_spending(df) ==
  GroupBySum(Column(df, S_Category), NumericColumn(Column(df, S_Amount)))

\* The category totals without sort_values(): in the order of groupby.
category_summary_unsorted(df) == category_spending(df)

\* df.groupby('Category')['Amount'].sum().sort_values(ascending=False)
category_summary(df) == SortValuesDescending(category_spending(df))

\* Lines 179-189 of spending_summary()
SummaryReport(df, amounts, totals) ==
  [ Report("summary") EXCEPT
      !.total = SeriesSum(amounts),
      !.values = CountValues(amounts),
      !.count = Len(df.data),
      !.totals = totals,
      !.top = IF Len(totals) > 0 THEN totals[1].cat ELSE S_NA ]

SummaryOf(problem, df) ==
  IF problem = "none_found" THEN Report("none_found")
  ELSE IF problem # "" THEN Raised(problem)
  ELSE SummaryReport(df, NumericColumn(Column(df, S_Amount)), category_summary(df))

\* spending_summary()
SummaryOfFrame(exists, df) == SummaryOf(FrameProblem(exists, df), df)

spending_summary(exists, lines) == SummaryOfFrame(exists, ReadCsv(lines))

ChartOf(problem, df) ==
  IF problem = "none_found" THEN Report("none_found")
  ELSE IF problem # "" THEN Raised(problem)
  ELSE [Report("chart") EXCEPT !.totals = category_spending(df)]

\* visualize_spending(): the series handed to the pie and the bar chart that
\* savefig writes to spending_chart.png (the drawing itself is matplotlib's)
ChartOfFrame(exists, df) == ChartOf(FrameProblem(exists, df), df)

visualize_spending(exists, lines) == ChartOfFrame(exists, ReadCsv(lines))

\* The tips table of ai_advisor (each tip named by its first words).
TipCategories ==
  {S_Food, S_Transport, S_Shopping, S_Entertainment, S_Bills, S_Healthcare}

CategoryTips(category) ==
  CASE category = S_Food ->
         << "Cook at home more often", "Plan your meals weekly",
            "Buy groceries in bulk", "Drink water instead of beverages" >>
    [] category = S_Transport ->
         << "Consider public transport or carpooling", "Use bike or walk",
            "Maintain your vehicle regularly", "Use ride-sharing apps" >>
    [] category = S_Shopping ->
         << "Wait 24 hours", "Use cashback and rewards programs",
            "Compare prices online", "Shop during sales" >>
    [] category = S_Entertainment ->
         << "Consider sharing streaming subscriptions",
            "Look for free or low-cost entertainment",
            "Use student/senior discounts", "Host game nights at home" >>
    [] category = S_Bills ->
         << "Switch to energy-efficient appliances",
            "Review and negotiate your subscription services",
            "Adjust thermostat settings", "Track usage patterns" >>
    [] category = S_Healthcare ->
         << "Ask for generic medications", "Use preventive care",
            "Check if your insurance covers wellness programs",
            "Compare prices at different pharmacies" >>

FallbackTips ==
  << "Track your expenses regularly", "Set a monthly budget for this category",
     "Try to reduce spending by 10-15% next month",
     "Use apps to find better deals and discounts" >>

GeneralAdvice ==
  << "Follow the 50/30/20 rule", "Build an emergency fund",
     "Review your spending weekly" >>

\* tips.get(top_category, [...])
TipsFor(category) ==
  IF category \in TipCategories THEN CategoryTips(category) ELSE FallbackTips

\* Lines 305-372 of ai_advisor()
AdviceReport(amounts, totals) ==
  IF Len(totals) = 0 THEN Raised("IndexError")
  ELSE [ Report("advice") EXCEPT
           !.top = totals[1].cat,
           !.totals = totals,
           !.total = SeriesSum(amounts),
           !.tips = TipsFor(totals[1].cat),
           !.general = GeneralAdvice ]

AdviceOf(problem, df) ==
  IF problem = "none_found" THEN Report("none_found")
  ELSE IF problem # "" THEN Raised(problem)
  ELSE AdviceReport(NumericColumn(Column(df, S_Amount)), category_summary(df))

\* ai_advisor()
AdviceOfFrame(exists, df) == AdviceOf(FrameProblem(exists, df), df)

ai_advisor(exists, lines) == AdviceOfFrame(exists, ReadCsv(lines))

(***************************************************************************)
(* add_transaction(): the prompts and the row it writes.                   *)
(***************************************************************************)
\* Lines 64-74: the date kept for the date typed
transaction_date(date_input) ==
  LET d == Strip(date_input) IN
  IF d = <<>> THEN Today
  ELSE IF IsValidDate(d) THEN d
  ELSE Today

\* Lines 78-80: the category kept for the category typed
category_of(category_input) ==
  LET c == Strip(category_input) IN
  IF c = <<>> THEN S_Other ELSE c

\* Lines 95-97: the description kept for the description typed
description_of(description_input) ==
  LET d == Strip(description_input) IN
  IF d = <<>> THEN S_NoDescription ELSE d

\* Lines 84-92, one pass of the loop: "break" when the amount is taken,
\* "nonpositive" and "invalid" for the two messages that repeat the prompt.
AmountCheck(amount_input) ==
  LET p == ParseFloat(Strip(amount_input)) IN
  IF ~p.ok THEN "invalid"
  ELSE IF FloatLeq(p.v, Zero) THEN "nonpositive"
  ELSE "break"

\* Lines 100-102: the line writer.writerow appends
RowLine(date, category, amount, description) ==
  CsvJoin(<<date, category, Repr(amount), description>>)

(***************************************************************************)
(* What the user may type.                                                 *)
(***************************************************************************)
\* Replies to the menu prompt: the six choices, an exit typed with blanks
\* around it, a number that is no choice, and the empty reply.
ChoiceInputs ==
  { <<"1">>, <<"2">>, <<"3">>, <<"4">>, <<"5">>, <<"6">>, <<" ", "6", " ">>,
    <<"7">>, <<>> }

\* Enter alone, the day's date typed out, a date that does not exist and a
\* text in another format.
DateInputs ==
  { <<>>,
    <<" ", "2", "0", "2", "4", "-", "0", "3", "-", "0", "1">>,
    <<"2", "0", "2", "3", "-", "0", "2", "-", "2", "9">>,
    <<"1", "5", "/", "0", "1">> }

\* Enter alone, two labels of the tips table (one also typed with blanks
\* around it), a label in another case, a label pandas reads as a missing
\* value, and a label that needs quoting in the file.  None is a numeral.
CategoryInputs ==
  { <<>>, S_Food, <<" ", "F", "o", "o", "d", " ">>, <<"f", "o", "o", "d">>,
    S_Transport, <<"N", "/", "A">>, <<"a", ",", "b">> }

\* Plain, signed and exponent forms, zero and negatives, texts that are no
\* number, and the special tokens of float().
AmountInputs ==
  { <<"5">>, <<"1", "e", "1">>, <<"+", "5", ".", "0", "0">>,
    <<"0">>, <<"-", "3">>, <<"-", "0", ".", "0">>, <<"a", "b", "c">>, <<>>,
    <<"n", "a", "n">>, <<"i", "n", "f">>, <<"-", "i", "n", "f">> }

\* Enter alone, and a blank
DescriptionInputs ==
  { <<>>, <<" ">> }

(***************************************************************************)
(* State.                                                                  *)
(***************************************************************************)
VARIABLES
  csv_exists,   \* os.path.exists(CSV_FILE)
  csv_lines,    \* the lines of transactions.csv, the header line included
  pc,           \* where the process is: "start" (main() not yet at
                \* initialize_csv), "menu" (at the choice prompt), "amount"
                \* (at the amount prompt of add_transaction), "pause" (at
                \* "Press Enter to continue"), "exited" (main() returned),
                \* "crashed" (ended by an uncaught exception)
  typed,        \* the reply typed at the menu prompt on screen (choice is
                \* its strip()), <<>> before any
  pending,      \* transaction_date and category of the add_transaction
                \* under way
  console       \* what the step just taken printed

vars == <<csv_exists, csv_lines, pc, typed, pending, console>>

NoPending == [date |-> <<>>, category |-> <<>>]

HeaderLine == CsvJoin(CSV_HEADERS)

\* Lines of the file that add_transaction wrote.
WrittenRows ==
  Len(SelectSeq(csv_lines, LAMBDA l : l # HeaderLine))

\* A new machine: no transactions.csv yet, the program not yet started.
Init ==
  /\ csv_exists = FALSE
  /\ csv_lines = <<>>
  /\ pc = "start"
  /\ typed = <<>>
  /\ pending = NoPending
  /\ console = Blank

(***************************************************************************)
(* main(): initialize_csv(), then the menu loop.                           *)
(***************************************************************************)
\* An initialize_csv() without the os.path.exists() test of line 44: it
\* writes the header whatever is there.
initialize_csv_unconditional ==
  /\ csv_exists' = TRUE
  /\ csv_lines' = <<HeaderLine>>
  /\ console' = Report("created")

\* initialize_csv(), lines 44-50, and the first display_menu()
initialize_csv ==
  IF ~csv_exists
  THEN /\ csv_exists' = TRUE
       /\ csv_lines' = <<HeaderLine>>
       /\ console' = Report("created")
  ELSE /\ UNCHANGED <<csv_exists, csv_lines>>
       /\ console' = Report("found")

Main ==
  /\ pc = "start"
  /\ initialize_csv
  /\ pc' = "menu"
  /\ UNCHANGED <<typed, pending>>

\* The end of a handler: back in the loop at the pause (line 434), or the
\* process ended by the exception no caller catches.
Finish(report) ==
  /\ console' = report
  /\ pc' = IF report.kind = "traceback" THEN "crashed" ELSE "pause"

\* choice "1", lines 59-80: the date and the category prompts
BeginAdd ==
  /\ pc = "menu"
  /\ WrittenRows < MaxRows
  /\ \E t \in ChoiceInputs, date_input \in DateInputs, category_input \in CategoryInputs :
       /\ Strip(t) = <<"1">>
       /\ typed' = t
       /\ pending' = [ date |-> transaction_date(date_input),
                       category |-> category_of(category_input) ]
  /\ pc' = "amount"
  /\ console' = Report("amount_prompt")
  /\ UNCHANGED <<csv_exists, csv_lines>>

\* Lines 84-92: an amount the loop refuses; the prompt comes again
RejectAmount ==
  /\ pc = "amount"
  /\ \E amount_input \in AmountInputs :
       /\ AmountCheck(amount_input) # "break"
       /\ console' = Report(AmountCheck(amount_input))
  /\ UNCHANGED <<csv_exists, csv_lines, pc, typed, pending>>

\* The write of lines 100-102 with mode 'w' in place of 'a': the file is
\* truncated before the row is written.
AppendRow_truncating(line) ==
  /\ csv_exists' = TRUE
  /\ csv_lines' = <<line>>

\* Lines 100-102: the row appended (open(..., 'a') creates a missing file)
AppendRow(line) ==
  /\ csv_exists' = TRUE
  /\ csv_lines' = Append(csv_lines, line)

\* Lines 84-108: an amount the loop takes, the description prompt, the row
\* appended and the confirmation printed
AcceptAmount ==
  /\ pc = "amount"
  /\ \E amount_input \in AmountInputs, description_input \in DescriptionInputs :
       /\ AmountCheck(amount_input) = "break"
       /\ LET amount == ParseFloat(Strip(amount_input)).v
              description == description_of(description_input)
          IN  /\ AppendRow(RowLine(pending.date, pending.category, amount, description))
              /\ Finish([ Report("added") EXCEPT
                            !.rows = << [ date |-> pending.date,
                                          category |-> pending.category,
                                          amount |-> amount,
                                          description |-> description ] >> ])
  /\ pending' = NoPending
  /\ UNCHANGED typed

\* A read-path choice: the handler runs on the store as it is.
RunReader(choice, report) ==
  /\ pc = "menu"
  /\ \E t \in ChoiceInputs : Strip(t) = choice /\ typed' = t
  /\ Finish(report)
  /\ UNCHANGED <<csv_exists, csv_lines, pending>>

\* choice "2"
ViewTransactions == RunReader(<<"2">>, view_transactions(csv_exists, csv_lines))

\* choice "3"
SpendingSummary == RunReader(<<"3">>, spending_summary(csv_exists, csv_lines))

\* choice "4"
VisualizeSpending == RunReader(<<"4">>, visualize_spending(csv_exists, csv_lines))

\* choice "5"
AiAdvisor == RunReader(<<"5">>, ai_advisor(csv_exists, csv_lines))

\* choice "6", lines 424-429: the farewell and the break
Exit ==
  /\ pc = "menu"
  /\ \E t \in ChoiceInputs : Strip(t) = <<"6">> /\ typed' = t
  /\ pc' = "exited"
  /\ console' = Report("goodbye")
  /\ UNCHANGED <<csv_exists, csv_lines, pending>>

\* Lines 430-431: any other reply
InvalidChoice ==
  /\ pc = "menu"
  /\ \E t \in ChoiceInputs :
       /\ Strip(t) \notin {<<"1">>, <<"2">>, <<"3">>, <<"4">>, <<"5">>, <<"6">>}
       /\ typed' = t
  /\ pc' = "pause"
  /\ console' = Report("invalid_choice")
  /\ UNCHANGED <<csv_exists, csv_lines, pending>>

\* Line 434 and the next turn of the loop: Enter, then display_menu()
Pause ==
  /\ pc = "pause"
  /\ pc' = "menu"
  /\ console' = Report("menu")
  /\ typed' = <<>>
  /\ UNCHANGED <<csv_exists, csv_lines, pending>>

\* The program is started again, on the files the last run left.
Rerun ==
  /\ pc \in {"exited", "crashed"}
  /\ pc' = "start"
  /\ typed' = <<>>
  /\ console' = Blank
  /\ UNCHANGED <<csv_exists, csv_lines, pending>>

Next ==
  \/ Main
  \/ BeginAdd
  \/ RejectAmount
  \/ AcceptAmount
  \/ ViewTransactions
  \/ SpendingSummary
  \/ VisualizeSpending
  \/ AiAdvisor
  \/ Exit
  \/ InvalidChoice
  \/ Pause
  \/ Rerun

Spec == Init /\ [][Next]_vars

(***************************************************************************)
(* The same program on a machine where transactions.csv can disappear      *)
(* while the menu is waiting (deleted or moved by the user).               *)
(***************************************************************************)
RemoveStore ==
  /\ pc = "menu"
  /\ csv_exists
  /\ csv_exists' = FALSE
  /\ csv_lines' = <<>>
  /\ UNCHANGED <<pc, typed, pending, console>>

NextFault ==
  \/ Main
  \/ BeginAdd
  \/ RejectAmount
  \/ AcceptAmount
  \/ ViewTransactions
  \/ SpendingSummary
  \/ VisualizeSpending
  \/ AiAdvisor
  \/ Exit
  \/ InvalidChoice
  \/ Pause
  \/ Rerun
  \/ RemoveStore

SpecFault == Init /\ [][NextFault]_vars

(***************************************************************************)
(* Properties.                                                             *)
(***************************************************************************)
\* The records a full read of the store yields, each as its four fields
\* read by name (as view_transactions reads them).
RecordsOf(d) ==
  [r \in 1..Len(d.rows) |->
     [ date |-> DictGet(d.fieldnames, d.rows[r], S_Date),
       category |-> DictGet(d.fieldnames, d.rows[r], S_Category),
       amount |-> DictGet(d.fieldnames, d.rows[r], S_Amount),
       description |-> DictGet(d.fieldnames, d.rows[r], S_Description) ]]

StoredRecords(lines) == RecordsOf(DictReaderRows(lines))

\* The report on screen comes from one of the two handlers that rank the
\* category totals.
RankedReport == console.kind \in {"summary", "advice"}

\* The Category column of the store, as the pandas handlers read it.
StoredLabels == Column(ReadCsv(csv_lines), S_Category)

\* The first row of the store that carries the label (0 for none).
FirstRow(labels, label) ==
  IF \E r \in 1..Len(labels) : labels[r] = label
  THEN CHOOSE r \in 1..Len(labels) :
         /\ labels[r] = label
         /\ \A q \in 1..(r - 1) : labels[q] # label
  ELSE 0

RECURSIVE SumOfTotals(_)
SumOfTotals(totals) ==
  IF totals = <<>> THEN Zero
  ELSE FloatAdd(Head(totals).sum, SumOfTotals(Tail(totals)))

\* C1: the record store is append-only.  Every step of the menu loop either
\* leaves the file as it is, or is the completion of add_transaction and
\* leaves the records read before it unchanged and in place, with exactly one
\* record after them.
C1_AppendOnly ==
  [][ pc # "start" =>
        \/ UNCHANGED <<csv_exists, csv_lines>>
        \/ /\ pc = "amount" /\ pc' = "pause" /\ console'.kind = "added"
           /\ csv_exists /\ csv_exists'
           /\ LET before == StoredRecords(csv_lines)
                  after == StoredRecords(csv_lines')
              IN  /\ Len(after) = Len(before) + 1
                  /\ SubSeq(after, 1, Len(before)) = before
    ]_vars

\* C1, witness: add_transaction has just appended a record to a store that
\* already held one.
C1_Witness ==
  /\ pc = "pause"
  /\ console.kind = "added"
  /\ Len(StoredRecords(csv_lines)) = 2

\* C2: round trip.  Right after add_transaction appended a record, a full
\* read of the store yields it as the last record: date, category and
\* description as written, the amount numerically equal to the one written.
C2_RoundTrip ==
  (pc = "pause" /\ console.kind = "added") =>
     LET records == StoredRecords(csv_lines)
         written == console.rows[1]
     IN  /\ Len(records) >= 1
         /\ LET last == records[Len(records)] IN
            /\ last.date = written.date
            /\ last.category = written.category
            /\ last.description = written.description
            /\ ParseFloat(last.amount).ok
            /\ FloatEq(ParseFloat(last.amount).v, written.amount)

\* C3: after any sequence of menu actions every record in the store has an
\* amount that is a number greater than zero.
C3_StoredAmountsPositive ==
  csv_exists =>
     \A r \in 1..Len(StoredRecords(csv_lines)) :
        LET p == ParseFloat(StoredRecords(csv_lines)[r].amount) IN
        p.ok /\ FloatLess(Zero, p.v)

\* C4: for a non-empty store the category totals of spending_summary and
\* ai_advisor add up to the total spending of the same read, and every stored
\* record is counted in exactly one category total.
C4_TotalsAddUp ==
  RankedReport =>
     /\ FloatEq(SumOfTotals(console.totals), console.total)
     /\ \A r \in 1..Len(StoredLabels) :
          Cardinality({i \in 1..Len(console.totals) :
                         console.totals[i].cat = StoredLabels[r]}) = 1

StructuralErrors == {"FileNotFoundError", "ParserError", "ValueError"}

\* C6: a structural error during a menu action aborts only that action: it
\* never ends the process.
C6_ErrorAbortsOnlyTheAction ==
  ~(pc = "crashed" /\ console.error \in StructuralErrors)

\* C7: in the menu loop every choice other than exit leads to the pause (for
\* add_transaction, by way of its prompts) and the pause to the menu again; an
\* invalid choice runs no action; the loop ends only on the choice "6".
C7_MenuLoop ==
  [][ /\ (pc = "menu" /\ Strip(typed') # <<"6">> => pc' \in {"pause", "amount"})
      /\ (pc = "menu" /\ Strip(typed') = <<"6">> => pc' = "exited")
      /\ (pc = "amount" => pc' \in {"amount", "pause"})
      /\ (pc = "pause" => pc' = "menu")
      /\ (pc' = "exited" => pc = "menu" /\ Strip(typed') = <<"6">>)
      /\ (pc = "menu" /\ console'.kind = "invalid_choice" =>
            UNCHANGED <<csv_exists, csv_lines>>)
    ]_vars

\* C8: on a store that holds the header and no data row, each read-path
\* action prints the "no transactions found" note and nothing else (no total,
\* average, top category, category totals, tips or chart), returns to the
\* pause and leaves the store as it was.
C8_EmptyStoreReports ==
  [][ ( /\ pc = "menu"
        /\ csv_exists
        /\ Len(csv_lines) = 1
        /\ CsvRows(csv_lines) = <<CSV_HEADERS>>
        /\ Strip(typed') \in {<<"2">>, <<"3">>, <<"4">>, <<"5">>} )
      => /\ console' = Report("none_found")
         /\ pc' = "pause"
         /\ UNCHANGED <<csv_exists, csv_lines>>
    ]_vars

\* C8, witness: ai_advisor has run on the header-only store.
C8_Witness ==
  /\ pc = "pause"
  /\ Strip(typed) = <<"5">>
  /\ csv_exists
  /\ CsvRows(csv_lines) = <<CSV_HEADERS>>
  /\ console.kind = "none_found"

\* C9: initialize_csv creates a store holding exactly the header row when
\* there is none, and leaves an existing store, stored records included, as
\* it is.
C9_InitializeIdempotent ==
  [][ pc = "start" =>
        IF csv_exists
        THEN UNCHANGED <<csv_exists, csv_lines>>
        ELSE csv_exists' /\ CsvRows(csv_lines') = <<CSV_HEADERS>>
    ]_vars

\* C9, witness: a later run has called initialize_csv on a store that holds
\* two records, and they are still there.
C9_Witness ==
  /\ pc = "menu"
  /\ console.kind = "found"
  /\ Len(StoredRecords(csv_lines)) = 2

\* C10: on a non-empty store ai_advisor prints the four tips of the top
\* category when it is, character for character, one of the six of the table,
\* the four fallback tips otherwise, and then the three lines of general
\* advice.
C10_TipsByExactMatch ==
  ( /\ pc \in {"pause", "crashed"}
    /\ Strip(typed) = <<"5">>
    /\ Len(StoredRecords(csv_lines)) >= 1 )
  => /\ console.kind = "advice"
     /\ Len(console.tips) = 4
     /\ console.tips = (IF console.top \in TipCategories
                        THEN CategoryTips(console.top)
                        ELSE FallbackTips)
     /\ console.general = GeneralAdvice
     /\ Len(console.general) = 3

====
